---- MODULE Spec2Model ----
(***************************************************************************)
(* A model of elm-react: the useElm hook (src/src/index.ts, first copy,    *)
(* lines 1-115), the helpers matchMsg / ImmutableList of util              *)
(* (src/unnamed/part_001) and the README counter component.                *)
(*                                                                         *)
(* JavaScript values are tagged records.  Objects that can become the      *)
(* component state live on a heap and are named by reference, so that      *)
(* identity and in-place mutation are observable; objects stored in a      *)
(* field of another object are immutable values.                           *)
(***************************************************************************)
EXTENDS Integers, Sequences, FiniteSets, TLC

VARIABLES
  config,        \* the ElmConfig the component was written with (init, update, afterUpdate)
  props,         \* config.props of the latest render (an identity)
  cmd,           \* the memoized action surface: [id, props] (props it closed over)
  initialModel,  \* the memoized result of init
  initCalls,     \* how many times init has been invoked
  reducer,       \* the memoized reducer: "objectReducer" or "primitiveReducer"
  model,         \* the state held by useReducer
  queue,         \* payloads dispatched and not yet reduced (the host's update queue)
  heap,          \* heap[r]: the fields of the object with reference r
  issued,        \* history: the calls made on the action surface since the last render
  rendered,      \* history: the calls the last render had to account for
  log,           \* history: one record per dispatch reduced by the last render
  current,       \* history: every state value that has been current, with its fields then
  lastCall,      \* history: the latest call made on the action surface
  nDispatched,   \* how many dispatches have been issued
  arrays,        \* arrays[a]: the elements of the JavaScript array a
  lists,         \* the ImmutableList instances in use: the _array of each
  got,           \* the array the caller last read from the array accessor (0: none)
  made,          \* history: made[k] is what lists[k] held when it was constructed
  lastOp,        \* history: the latest ImmutableList operation and its result
  objects,       \* objects[o]: the fields of the JavaScript object o records are made of
  records,       \* the ImmutableObject instances in use: the _object of each
  built,         \* history: built[k] is what records[k] held when it was constructed
  lastRec        \* history: the latest ImmutableObject operation and its result

vars == <<config, props, cmd, initialModel, initCalls, reducer, model, queue,
          heap, issued, rendered, log, current, lastCall, nDispatched,
          arrays, lists, got, made, lastOp, objects, records, built, lastRec>>

listVars == <<arrays, lists, got, made, lastOp>>

recordVars == <<objects, records, built, lastRec>>

engineVars == <<config, props, cmd, initialModel, initCalls, reducer, model, queue,
                heap, issued, rendered, log, current, lastCall, nDispatched>>

-----------------------------------------------------------------------------
(* Bounds *)

MaxDispatches == 2
MaxBatch == 3
MaxCmdCalls == 2
MaxInitCalls == 2
MaxLen == 3
MaxLists == 3
MaxRecords == 3
MaxRuns == 4

-----------------------------------------------------------------------------
(* JavaScript values *)

Undef == [t |-> "undef"]
NaN == [t |-> "nan"]
Num(i) == [t |-> "num", n |-> i]
Ref(r) == [t |-> "ref", r |-> r]
Obj(f) == [t |-> "obj", f |-> f]

EmptyObj == [k \in {} |-> Undef]

\* v instanceof Object
InstanceOfObject(v) == v.t \in {"ref", "obj"}

\* The characters of the string values that occur as data.
Chars(x) ==
  CASE x = "" -> <<>>
    [] x = "ab" -> <<"a", "b">>
    [] x = "new" -> <<"n", "e", "w">>
    [] x = "milk" -> <<"m", "i", "l", "k">>

\* The property names of the first indexes.
IndexKeys == <<"0", "1", "2", "3">>

\* The own enumerable properties a spread {...v} copies: those of an object,
\* the characters of a string under their indexes, none for undefined, a
\* number or a boolean.
OwnProps(h, v) ==
  IF v.t = "ref" THEN h[v.r]
  ELSE IF v.t = "obj" THEN v.f
  ELSE IF v.t = "str"
    THEN LET c == Chars(v.s)
         IN [k \in {IndexKeys[i] : i \in 1..Len(c)} |->
               [t |-> "str", s |-> c[CHOOSE i \in 1..Len(c) : IndexKeys[i] = k]]]
  ELSE EmptyObj

\* A spread that would merge nested objects field by field.
SpreadDeep(base, over) ==
  [k \in DOMAIN base \cup DOMAIN over |->
     IF k \in DOMAIN over
       THEN IF k \in DOMAIN base /\ base[k].t = "obj" /\ over[k].t = "obj"
              THEN Obj([j \in DOMAIN base[k].f \cup DOMAIN over[k].f |->
                          IF j \in DOMAIN over[k].f THEN over[k].f[j] ELSE base[k].f[j]])
              ELSE over[k]
       ELSE base[k]]

\* {...base, ...over}: the fields of over win, one level deep.
Spread(base, over) ==
  [k \in DOMAIN base \cup DOMAIN over |->
     IF k \in DOMAIN over THEN over[k] ELSE base[k]]

\* A merge that would write the fields into m itself.
MergedInPlace(h, m, partial) ==
  LET fields == Spread(OwnProps(h, m),
                       IF InstanceOfObject(partial) THEN OwnProps(h, partial) ELSE EmptyObj)
  IN IF m.t = "ref"
       THEN [h |-> [h EXCEPT ![m.r] = fields], v |-> m]
       ELSE [h |-> Append(h, fields), v |-> Ref(Len(h) + 1)]

\* A merge that would return m itself when partial is not an object.
MergedReuse(h, m, partial) ==
  IF InstanceOfObject(partial)
    THEN [h |-> Append(h, Spread(OwnProps(h, m), OwnProps(h, partial))), v |-> Ref(Len(h) + 1)]
    ELSE [h |-> h, v |-> m]

\* A merge that would adopt a partial that is not an object as the state.
MergedUnguarded(h, m, partial) ==
  IF InstanceOfObject(partial)
    THEN [h |-> Append(h, Spread(OwnProps(h, m), OwnProps(h, partial))), v |-> Ref(Len(h) + 1)]
    ELSE [h |-> h, v |-> partial]

\* {...m, ...(partial instanceof Object && partial)} evaluated on heap h: a
\* new object is created, m and partial are only read.
Merged(h, m, partial) ==
  LET fields == Spread(OwnProps(h, m),
                       IF InstanceOfObject(partial) THEN OwnProps(h, partial) ELSE EmptyObj)
  IN [h |-> Append(h, fields), v |-> Ref(Len(h) + 1)]

\* a + b on numbers; anything else is not a number here
Plus(v, d) == IF v.t = "num" THEN Num(v.n + d) ELSE NaN

-----------------------------------------------------------------------------
(* The components the hook is used with *)

\* The object literal an object-shaped init returns.
InitObj == ("a" :> Num(0)) @@ ("n" :> Obj(("x" :> Num(0)) @@ ("y" :> Num(0))))

\* The object literals callers pass as arguments.
ArgObjs ==
  { ("a" :> Num(1)),
    ("b" :> Num(1)) @@ ("n" :> Obj(("x" :> Num(1)))) }

PropsIds == {1, 2}

\* init: "zero" is the README counter's init, "obj" returns an object literal,
\* "fromProps" returns one or the other depending on props.
InitFns == {"zero", "obj", "fromProps"}
UpdateFns == {"counter", "match"}
AfterUpdateFns == {"none", "nothing", "derive"}

Configs ==
  { c \in [init : InitFns, update : UpdateFns, afterUpdate : AfterUpdateFns] :
      c.update = "counter" => (c.init = "zero" /\ c.afterUpdate = "none") }

\* init({cmd, props}) on heap h
init(h, c, p) ==
  IF c.init = "obj" \/ (c.init = "fromProps" /\ p = 2)
    THEN [h |-> Append(h, InitObj), v |-> Ref(Len(h) + 1)]
    ELSE [h |-> h, v |-> Num(0)]

\* The members of Object.prototype that are functions, as far as messages
\* are named after them here: handlers is a plain object and inherits them.
ObjectPrototype == {"constructor"}

\* fn(...args) for the function found under name: the handler Ret returns
\* its first argument, the handler Pair is (a, b) => ({a, b}), and the
\* inherited constructor is Object, which returns an object argument as it
\* is and an object with no own enumerable property otherwise.
handler(name, args) ==
  LET arg(i) == IF Len(args) >= i THEN args[i] ELSE Undef
  IN IF name = "Pair" THEN Obj(("a" :> arg(1)) @@ ("b" :> arg(2)))
     ELSE IF name = "constructor"
       THEN (IF InstanceOfObject(arg(1)) THEN arg(1) ELSE Obj(EmptyObj))
     ELSE arg(1)

\* A matchMsg that would pass the arguments in reverse order.
matchMsgReversed(msg, args, handlers) ==
  IF msg \in handlers \cup ObjectPrototype
    THEN handler(msg, [i \in 1..Len(args) |-> args[Len(args) + 1 - i]])
    ELSE Undef

\* matchMsg(msg, args, handlers): handlers[msg] is looked up, own entry or
\* inherited member, and when it is truthy its result for the arguments is
\* returned; otherwise nothing.  handlers is the set of message names with
\* an entry.
matchMsg(msg, args, handlers) ==
  IF msg \in handlers \cup ObjectPrototype
    THEN handler(msg, args)
    ELSE Undef

\* The README counter's update.
CounterUpdate(msg, m) ==
  IF msg = "Increment" THEN Plus(m, 1)
  ELSE IF msg = "Decrement" THEN Plus(m, -1)
  ELSE m

\* config.update({args, cmd, model, msg, props})
update(c, args, m, msg) ==
  IF c.update = "counter" THEN CounterUpdate(msg, m)
  ELSE matchMsg(msg, args, IF c.update = "handlers" THEN {"Ret", "Pair"} ELSE {"Ret"})

\* config.afterUpdate({cmd, model, props}) on heap h: "nothing" returns
\* nothing; "derive" returns {b: model.a} for an object with a field a,
\* Math.max(model, 0) for a number, and nothing otherwise.
afterUpdate(h, c, m) ==
  IF c.afterUpdate = "derive" /\ InstanceOfObject(m) /\ "a" \in DOMAIN OwnProps(h, m)
    THEN [h |-> Append(h, ("b" :> OwnProps(h, m)["a"])), v |-> Ref(Len(h) + 1)]
  ELSE IF c.afterUpdate = "derive" /\ m.t = "num"
    THEN [h |-> h, v |-> IF m.n < 0 THEN Num(0) ELSE m]
  ELSE [h |-> h, v |-> Undef]

-----------------------------------------------------------------------------
(* The transition engine *)

\* What one run of a reducer did: the state S it started from, update's
\* result R1, the post-update state S1, the model handed to afterUpdate,
\* afterUpdate's result R2 and the state F returned, each with the fields it
\* had at that moment, and the caller-supplied functions invoked, in order.
LogRecord(kind, p, h0, m, r1, h1, s1, called, arg, ha, r2, hf, f) ==
  [ reducer |-> kind, payload |-> p, fresh |-> Len(h0),
    S |-> m, Sc |-> OwnProps(h0, m),
    R1 |-> r1, R1c |-> OwnProps(h0, r1),
    S1 |-> s1, S1c |-> OwnProps(h1, s1),
    calls |-> IF called THEN <<"update", "afterUpdate">> ELSE <<"update">>,
    arg |-> arg, argc |-> OwnProps(h1, arg),
    R2 |-> r2, R2c |-> OwnProps(ha, r2),
    F |-> f, Fc |-> OwnProps(hf, f) ]

\* An objectReducer that would hand afterUpdate the state before update.
objectReducerStale(h, c, m, p) ==
  LET partialModel == update(c, p.args, m, p.msg)
      u == Merged(h, m, partialModel)
  IN IF c.afterUpdate # "none"
       THEN LET a == afterUpdate(u.h, c, m)
                f == Merged(a.h, m, a.v)
            IN [h |-> f.h, v |-> f.v,
                rec |-> LogRecord("objectReducer", p, h, m, partialModel, u.h, u.v,
                                  TRUE, m, a.h, a.v, f.h, f.v)]
       ELSE [h |-> u.h, v |-> u.v,
             rec |-> LogRecord("objectReducer", p, h, m, partialModel, u.h, u.v,
                               FALSE, Undef, u.h, Undef, u.h, u.v)]

objectReducer(h, c, m, p) ==
  LET partialModel == update(c, p.args, m, p.msg)
      u == Merged(h, m, partialModel)
  IN IF c.afterUpdate # "none"
       THEN LET a == afterUpdate(u.h, c, u.v)
                f == Merged(a.h, u.v, a.v)
            IN [h |-> f.h, v |-> f.v,
                rec |-> LogRecord("objectReducer", p, h, m, partialModel, u.h, u.v,
                                  TRUE, u.v, a.h, a.v, f.h, f.v)]
       ELSE [h |-> u.h, v |-> u.v,
             rec |-> LogRecord("objectReducer", p, h, m, partialModel, u.h, u.v,
                               FALSE, Undef, u.h, Undef, u.h, u.v)]

\* A primitiveReducer that would keep the state when update returns nothing.
primitiveReducerKeep(h, c, m, p) ==
  LET r == update(c, p.args, m, p.msg)
      updatedModel == IF r = Undef THEN m ELSE r
  IN IF c.afterUpdate # "none"
       THEN LET a == afterUpdate(h, c, updatedModel)
                f == IF a.v = Undef THEN updatedModel ELSE a.v
            IN [h |-> a.h, v |-> f,
                rec |-> LogRecord("primitiveReducer", p, h, m, r, h, updatedModel,
                                  TRUE, updatedModel, a.h, a.v, a.h, f)]
       ELSE [h |-> h, v |-> updatedModel,
             rec |-> LogRecord("primitiveReducer", p, h, m, r, h, updatedModel,
                               FALSE, Undef, h, Undef, h, updatedModel)]

primitiveReducer(h, c, m, p) ==
  LET updatedModel == update(c, p.args, m, p.msg)
  IN IF c.afterUpdate # "none"
       THEN LET a == afterUpdate(h, c, updatedModel)
            IN [h |-> a.h, v |-> a.v,
                rec |-> LogRecord("primitiveReducer", p, h, m, updatedModel, h, updatedModel,
                                  TRUE, updatedModel, a.h, a.v, a.h, a.v)]
       ELSE [h |-> h, v |-> updatedModel,
             rec |-> LogRecord("primitiveReducer", p, h, m, updatedModel, h, updatedModel,
                               FALSE, Undef, h, Undef, h, updatedModel)]

\* initialModel instanceof Object ? objectReducer : primitiveReducer
SelectReducer(im) ==
  IF InstanceOfObject(im) THEN "objectReducer" ELSE "primitiveReducer"

\* A reduction that would start every run from the initial model.
ReduceFromInitial(kind, h, c, m, p) ==
  IF kind = "objectReducer" THEN objectReducer(h, c, initialModel, p)
  ELSE primitiveReducer(h, c, initialModel, p)

\* A reduction that would pick the reducer by the shape of the state.
ReduceByState(kind, h, c, m, p) ==
  IF InstanceOfObject(m) THEN objectReducer(h, c, m, p) ELSE primitiveReducer(h, c, m, p)

\* reducer(model, payload), for the memoized reducer
Reduce(kind, h, c, m, p) ==
  IF kind = "objectReducer" THEN objectReducer(h, c, m, p) ELSE primitiveReducer(h, c, m, p)

\* The host's useReducer on a render: every queued payload is reduced, in
\* the order dispatched, each from the state the previous one returned.
RECURSIVE Drain(_, _, _, _, _, _)
Drain(kind, h, c, m, q, recs) ==
  IF q = <<>> THEN [h |-> h, v |-> m, recs |-> recs]
  ELSE LET r == Reduce(kind, h, c, m, Head(q))
       IN Drain(kind, r.h, c, r.v, Tail(q), Append(recs, r.rec))

-----------------------------------------------------------------------------
(* The action surface *)

\* prop.toString() for a property key: a string is itself, a symbol prints
\* as Symbol(description).
PropToString(key) ==
  IF key.k = "sym" THEN "Symbol(" \o key.s \o ")" ELSE key.s

StrKey(s) == [k |-> "str", s |-> s]
SymKey(s) == [k |-> "sym", s |-> s]

\* cmd[key](...args): the payload handed to dispatch
CmdPayload(key, args, p) ==
  [args |-> args, msg |-> PropToString(key), props |-> p]

\* A curry that would put the trailing arguments first.
CurryPayloadSwapped(key, bindArgs, args, p) ==
  [args |-> args \o bindArgs, msg |-> PropToString(key), props |-> p]

\* cmd[key].curry(...bindArgs)(...args): the payload handed to dispatch
CurryPayload(key, bindArgs, args, p) ==
  [args |-> bindArgs \o args, msg |-> PropToString(key), props |-> p]

\* A dispatch that would enqueue the payload twice.
DispatchTwice(q, payload) == Append(Append(q, payload), payload)

\* dispatch(payload): the host appends the payload to the update queue
Dispatch(q, payload) == Append(q, payload)

\* The argument values of a call: an object literal among the arguments is a
\* new object on the heap, anything else is the value itself.
RECURSIVE Evaluate(_, _, _)
Evaluate(h, lits, done) ==
  IF lits = <<>> THEN [h |-> h, args |-> done]
  ELSE IF Head(lits).t = "obj"
    THEN Evaluate(Append(h, Head(lits).f), Tail(lits), Append(done, Ref(Len(h) + 1)))
    ELSE Evaluate(h, Tail(lits), Append(done, Head(lits)))

-----------------------------------------------------------------------------
(* The component instance *)

NoCall == [via |-> "none"]

\* The state after the first render (mount): cmd, initialModel and reducer
\* are memoized, and useReducer starts from initialModel.
Mount(c, p) ==
  LET i == init(<<>>, c, p)
  IN /\ config = c
     /\ props = p
     /\ cmd = [id |-> 1, props |-> p]
     /\ initialModel = i.v
     /\ initCalls = 1
     /\ reducer = SelectReducer(i.v)
     /\ model = i.v
     /\ queue = <<>>
     /\ heap = i.h
     /\ issued = <<>>
     /\ rendered = <<>>
     /\ log = <<>>
     /\ current = <<[v |-> i.v, c |-> OwnProps(i.h, i.v)]>>
     /\ lastCall = NoCall
     /\ nDispatched = 0

\* No ImmutableList is in use.
NoLists ==
  /\ arrays = <<>>
  /\ lists = <<>>
  /\ got = 0
  /\ made = <<>>
  /\ lastOp = [op |-> "none"]

\* No ImmutableObject is in use.
NoRecords ==
  /\ objects = <<>>
  /\ records = <<>>
  /\ built = <<>>
  /\ lastRec = [op |-> "none"]

\* cmd[key](...lits), called on the surface the view was given.
CmdCall(key, lits, limit) ==
  /\ nDispatched < limit
  /\ LET e == Evaluate(heap, lits, <<>>)
         payload == CmdPayload(key, e.args, cmd.props)
     IN /\ heap' = e.h
        /\ queue' = Dispatch(queue, payload)
        /\ issued' = Append(issued, [msg |-> PropToString(key), args |-> e.args])
        /\ lastCall' = [via |-> "call", key |-> key, bindArgs |-> <<>>, args |-> e.args,
                        before |-> queue, after |-> queue', surface |-> cmd, returned |-> Undef]
  /\ nDispatched' = nDispatched + 1
  /\ UNCHANGED <<config, props, cmd, initialModel, initCalls, reducer, model,
                 rendered, log, current>>
  /\ UNCHANGED <<listVars, recordVars>>

\* cmd[key].curry(...bound)(...lits), called on the surface the view was given.
CmdCurry(key, bound, lits, limit) ==
  /\ nDispatched < limit
  /\ LET b == Evaluate(heap, bound, <<>>)
         e == Evaluate(b.h, lits, <<>>)
         payload == CurryPayload(key, b.args, e.args, cmd.props)
     IN /\ heap' = e.h
        /\ queue' = Dispatch(queue, payload)
        /\ issued' = Append(issued, [msg |-> PropToString(key), args |-> b.args \o e.args])
        /\ lastCall' = [via |-> "curry", key |-> key, bindArgs |-> b.args, args |-> e.args,
                        before |-> queue, after |-> queue', surface |-> cmd, returned |-> Undef]
  /\ nDispatched' = nDispatched + 1
  /\ UNCHANGED <<config, props, cmd, initialModel, initCalls, reducer, model,
                 rendered, log, current>>
  /\ UNCHANGED <<listVars, recordVars>>

\* A surface that would be built on the first render only.
useMemoCmdOnce(prev, deps, p) == prev

\* cmd = useMemo(() => new Proxy(...), [props]): the surface prev, built for
\* the props deps, is kept while props has that identity; for other props p
\* a new surface is built, closing over p.
useMemoCmd(prev, deps, p) ==
  IF p # deps THEN [id |-> prev.id + 1, props |-> p] ELSE prev

\* An initial model that would be computed on the first render only.
useMemoInitialModelOnce(h, c, prev, deps, p) ==
  [h |-> h, v |-> prev, calls |-> 0]

\* initialModel = useMemo(() => init({cmd, props}), [props]): the value prev,
\* computed for the props deps, is kept while props has that identity; for
\* other props p, init is invoked again.
useMemoInitialModel(h, c, prev, deps, p) ==
  IF p # deps
    THEN [h |-> init(h, c, p).h, v |-> init(h, c, p).v, calls |-> 1]
    ELSE [h |-> h, v |-> prev, calls |-> 0]

\* One run of useElm with config.props = p: the memoized cmd and initialModel
\* are recomputed when props changed identity, the reducer when initialModel
\* did; useReducer reduces the queued payloads with that reducer; the view
\* gets cmd, model and props.
Render(p) ==
  /\ p # props \/ queue # <<>>
  /\ p # props => initCalls < MaxInitCalls
  /\ LET i == useMemoInitialModel(heap, config, initialModel, props, p)
         kind == IF i.v # initialModel THEN SelectReducer(i.v) ELSE reducer
         d == Drain(kind, i.h, config, model, queue, <<>>)
     IN /\ cmd' = useMemoCmd(cmd, props, p)
        /\ initialModel' = i.v
        /\ initCalls' = initCalls + i.calls
        /\ reducer' = kind
        /\ model' = d.v
        /\ heap' = d.h
        /\ log' = d.recs
        /\ current' = current \o [k \in 1..Len(d.recs) |->
                                    [v |-> d.recs[k].F, c |-> d.recs[k].Fc]]
  /\ props' = p
  /\ queue' = <<>>
  /\ rendered' = issued
  /\ issued' = <<>>
  /\ UNCHANGED <<config, lastCall, nDispatched>>
  /\ UNCHANGED <<listVars, recordVars>>

-----------------------------------------------------------------------------
(* Spec: the transition engine, driven through plain calls on the surface *)

\* The calls a view of the component makes: the counter's buttons (and a
\* name it never declared), or Ret with the value to return.
EngineCalls(c) ==
  IF c.update = "counter"
    THEN { <<StrKey(m), <<>>>> : m \in {"Increment", "Decrement", "Undeclared"} }
    ELSE { <<StrKey("Ret"), <<v>>>> : v \in {Undef, Num(1)} \cup { Obj(o) : o \in ArgObjs } }
         \cup { <<StrKey("Undeclared"), <<>>>> }

Init == NoLists /\ NoRecords /\ \E c \in Configs, p \in PropsIds : Mount(c, p)

Call == \E k \in EngineCalls(config) : CmdCall(k[1], k[2], MaxDispatches)

Rerender == \E p \in PropsIds : Render(p)

Next == Call \/ Rerender

Spec == Init /\ [][Next]_vars

-----------------------------------------------------------------------------
(* Claims about the transition engine, checked under Spec *)

Recs == { log[k] : k \in DOMAIN log }

NoAfterUpdate == config.afterUpdate = "none"

\* res has the fields of S that R lacks, unchanged, the fields of R with R's
\* values, and no others.
IsShallowMerge(res, S, R) ==
  /\ DOMAIN res = DOMAIN S \cup DOMAIN R
  /\ \A f \in DOMAIN S \ DOMAIN R : res[f] = S[f]
  /\ \A f \in DOMAIN R : res[f] = R[f]

\* C1 as stated: for every object-shaped state S and object-shaped result R
\* of update, with no afterUpdate, the state after the dispatch is the
\* shallow merge of R over S.
C1_MergeForEveryObjectState ==
  \A r \in Recs :
    (NoAfterUpdate /\ InstanceOfObject(r.S) /\ InstanceOfObject(r.R1))
      => IsShallowMerge(r.Fc, r.Sc, r.R1c)

\* C1 amended: when the memoized initial model is object-shaped (so the
\* reducer in use is objectReducer), for every object-shaped state S and
\* object-shaped result R of update, with no afterUpdate, the state after
\* the dispatch has every field of S that is not in R unchanged and every
\* field of R with exactly R's value, nested objects being replaced whole.
C1_MergeUnderObjectReducer ==
  \A r \in Recs :
    (InstanceOfObject(initialModel) /\ NoAfterUpdate
       /\ InstanceOfObject(r.S) /\ InstanceOfObject(r.R1))
      => IsShallowMerge(r.Fc, r.Sc, r.R1c)

\* A dispatch merged {b, n: {x}} over a state {a, n: {x, y}}: a is kept, b is
\* added and n no longer has y.
C1_Witness ==
  \E r \in Recs :
    /\ InstanceOfObject(initialModel) /\ NoAfterUpdate
    /\ InstanceOfObject(r.S) /\ InstanceOfObject(r.R1)
    /\ "y" \in DOMAIN r.Sc["n"].f
    /\ "n" \in DOMAIN r.R1c
    /\ "a" \notin DOMAIN r.R1c
    /\ r.Fc["n"] = Obj(("x" :> Num(1)))
    /\ r.Fc["a"] = r.Sc["a"]

\* C2 as stated: for object-shaped state and no afterUpdate, a dispatch whose
\* update returns nothing or a non-object value leaves every field as it was.
C2_AbsentResultForEveryObjectState ==
  \A r \in Recs :
    (NoAfterUpdate /\ InstanceOfObject(r.S) /\ ~InstanceOfObject(r.R1))
      => (InstanceOfObject(r.F) /\ r.Fc = r.Sc)

\* C2 amended: when the memoized initial model is object-shaped (objectReducer
\* in use), for object-shaped state and no afterUpdate, a dispatch whose
\* update returns nothing or a non-object value yields a state that is
\* field-for-field equal to the state before the dispatch.
C2_AbsentResultUnderObjectReducer ==
  \A r \in Recs :
    (InstanceOfObject(initialModel) /\ NoAfterUpdate
       /\ InstanceOfObject(r.S) /\ ~InstanceOfObject(r.R1))
      => (InstanceOfObject(r.F) /\ r.Fc = r.Sc)

\* Under objectReducer one dispatch returned nothing and another a number,
\* from a state that has fields.
C2_Witness ==
  /\ InstanceOfObject(initialModel) /\ NoAfterUpdate
  /\ \E r \in Recs : InstanceOfObject(r.S) /\ r.R1 = Undef /\ r.Sc # EmptyObj /\ r.Fc = r.Sc
  /\ \E r \in Recs : InstanceOfObject(r.S) /\ r.R1 = Num(1) /\ r.Sc # EmptyObj /\ r.Fc = r.Sc

\* C6: every state value that has been current still has exactly the fields
\* and values it had when it was current.
C6_NoInPlaceMutation ==
  \A k \in DOMAIN current : OwnProps(heap, current[k].v) = current[k].c

\* Three object states have been current, the later ones differing from the
\* first, in a component with an afterUpdate.
C6_Witness ==
  /\ ~NoAfterUpdate
  /\ Len(current) >= 3
  /\ \A k \in DOMAIN current : current[k].v.t = "ref"
  /\ current[1].c # current[3].c
  /\ current[1].v # current[3].v

\* The value the last stage of the dispatch returned.
LastResult(r) == IF Len(r.calls) = 2 THEN r.R2 ELSE r.R1

\* C7 as stated: when update and afterUpdate return nothing, the state
\* installed is the old state value itself.
C7_UnchangedReusesOldState ==
  \A r \in Recs :
    (r.R1 = Undef /\ (Len(r.calls) = 2 => r.R2 = Undef)) => r.F = r.S

\* C7 amended: every transition reduced by objectReducer installs a newly
\* created object, never the old state value, also when update and
\* afterUpdate return nothing (the new object then has the old fields, and
\* the host does see a state identity change); a transition reduced by
\* primitiveReducer installs the value its last stage returned.
C7_ObjectReducerAlwaysNewState ==
  \A r \in Recs :
    IF InstanceOfObject(initialModel)
      THEN /\ r.F.t = "ref"
           /\ r.F.r > r.fresh
           /\ r.F # r.S
           /\ (~InstanceOfObject(r.R1) /\ ~InstanceOfObject(r.R2)) => r.Fc = r.Sc
      ELSE r.F = LastResult(r)

\* update and afterUpdate returned nothing under objectReducer, and the state
\* installed is another object with the same fields.
C7_Witness ==
  \E r \in Recs :
    /\ InstanceOfObject(initialModel)
    /\ r.calls = <<"update", "afterUpdate">>
    /\ r.R1 = Undef /\ r.R2 = Undef
    /\ r.S.t = "ref" /\ r.F.t = "ref" /\ r.F # r.S
    /\ r.Fc = r.Sc

MergeOrKeep(res, S, r, R) ==
  IF InstanceOfObject(r) THEN IsShallowMerge(res, S, R) ELSE res = S

\* C9 as stated: with afterUpdate configured, update then afterUpdate run
\* once each, afterUpdate gets the post-update state, and both stages merge
\* when the state they start from is object-shaped and replace otherwise.
C9_AfterUpdateByStateShape ==
  \A r \in Recs :
    ~NoAfterUpdate =>
      /\ r.calls = <<"update", "afterUpdate">>
      /\ r.arg = r.S1
      /\ IF InstanceOfObject(r.S)
           THEN InstanceOfObject(r.S1) /\ MergeOrKeep(r.S1c, r.Sc, r.R1, r.R1c)
           ELSE r.S1 = r.R1
      /\ IF InstanceOfObject(r.S1)
           THEN InstanceOfObject(r.F) /\ MergeOrKeep(r.Fc, r.S1c, r.R2, r.R2c)
           ELSE r.F = r.R2

\* C9 amended: with afterUpdate configured, every dispatch invokes update
\* once and then afterUpdate once, afterUpdate receives the post-update
\* state S1, and both stages follow the memoized reducer: when the initial
\* model is object-shaped, S1 is the shallow merge of R1 over S and the final
\* state the shallow merge of R2 over S1; otherwise S1 is R1 itself and the
\* final state R2 itself, with no fallback.
C9_AfterUpdateByReducer ==
  \A r \in Recs :
    ~NoAfterUpdate =>
      /\ r.calls = <<"update", "afterUpdate">>
      /\ r.arg = r.S1
      /\ r.argc = r.S1c
      /\ IF InstanceOfObject(initialModel)
           THEN /\ InstanceOfObject(r.S1) /\ MergeOrKeep(r.S1c, r.Sc, r.R1, r.R1c)
                /\ InstanceOfObject(r.F) /\ MergeOrKeep(r.Fc, r.S1c, r.R2, r.R2c)
           ELSE r.S1 = r.R1 /\ r.F = r.R2

\* Under objectReducer, update returned {a: 1}, afterUpdate received the
\* post-update state with a = 1 and derived {b: 1} from it, and the final
\* state has both.
C9_WitnessObject ==
  \E r \in Recs :
    /\ InstanceOfObject(initialModel) /\ config.afterUpdate = "derive"
    /\ r.Sc["a"] = Num(0)
    /\ r.R1c = ("a" :> Num(1))
    /\ r.argc["a"] = Num(1)
    /\ r.R2c = ("b" :> Num(1))
    /\ r.Fc["a"] = Num(1) /\ r.Fc["b"] = Num(1)

C18_InitInvokedOnce == initCalls = 1

\* C18 amended: init is invoked once at mount and once more at every render
\* whose props differ in identity from those of the previous render; the
\* state is the first result until a dispatch is reduced, a later result
\* never becomes the state, and every reduction starts from the state as it
\* was.
C18_InitPerPropsChange ==
  /\ initCalls = 1
  /\ model = initialModel
  /\ [][ /\ initCalls' = initCalls + (IF props' # props THEN 1 ELSE 0)
         /\ queue = <<>> => model' = model
         /\ (queue # <<>> /\ queue' = <<>>) => log'[1].S = model ]_vars

\* Props changed once; init was invoked a second time and returned an
\* object, while the state is still the 0 the first invocation returned.
C18_Witness ==
  /\ config.init = "fromProps"
  /\ initCalls = 2
  /\ InstanceOfObject(initialModel)
  /\ current = <<[v |-> Num(0), c |-> EmptyObj]>>
  /\ model = Num(0)

-----------------------------------------------------------------------------
(* SpecBatch: several dispatches issued before one render *)

BatchConfigs ==
  { c \in Configs : c.init \in {"zero", "obj"} /\ c.afterUpdate \in {"none", "derive"} }

BatchInit == NoLists /\ NoRecords /\ \E c \in BatchConfigs : Mount(c, 1)

BatchCall == \E k \in EngineCalls(config) : CmdCall(k[1], k[2], MaxBatch)

BatchRender == Render(props)

BatchNext == BatchCall \/ BatchRender

SpecBatch == BatchInit /\ [][BatchNext]_vars

\* The counter after the messages msgs, from n: the left fold of +1 for
\* Increment, -1 for Decrement and nothing for any other message.
RECURSIVE FoldCounter(_, _)
FoldCounter(n, msgs) ==
  IF msgs = <<>> THEN n
  ELSE FoldCounter(IF Head(msgs).msg = "Increment" THEN n + 1
                   ELSE IF Head(msgs).msg = "Decrement" THEN n - 1
                   ELSE n,
                   Tail(msgs))

\* C3: the dispatches issued before a render are reduced in the order
\* issued, each exactly once and each from the state the previous one
\* produced, starting from the state current before the render; the state
\* after the render is the one the last of them produced (for the counter:
\* the left fold of the messages over the count before the render).
C3_DispatchOrdering ==
  /\ Len(log) = Len(rendered)
  /\ \A k \in DOMAIN log :
       /\ log[k].payload.msg = rendered[k].msg
       /\ log[k].payload.args = rendered[k].args
       /\ log[k].S = IF k = 1 THEN current[Len(current) - Len(log)].v ELSE log[k - 1].F
       /\ log[k].Sc = IF k = 1 THEN current[Len(current) - Len(log)].c ELSE log[k - 1].Fc
  /\ log # <<>> => model = log[Len(log)].F
  /\ (log # <<>> /\ config.update = "counter") =>
       model = Num(FoldCounter(log[1].S.n, rendered))
  /\ Len(queue) = Len(issued)
  /\ \A k \in DOMAIN queue :
       queue[k].msg = issued[k].msg /\ queue[k].args = issued[k].args

\* Three different dispatches were reduced by one render, and each changed
\* the state.
C3_Witness ==
  /\ Len(log) = 3
  /\ log[1].payload # log[2].payload
  /\ log[2].payload # log[3].payload
  /\ log[1].payload # log[3].payload
  /\ log[1].Fc # log[1].Sc
  /\ log[2].Fc # log[2].Sc
  /\ log[3].Fc # log[3].Sc
  /\ log[3].Fc # log[1].Fc

-----------------------------------------------------------------------------
(* SpecCmd: the action surface, with plain and pre-bound calls *)

CmdKeys == {StrKey("Increment"), StrKey("Undeclared"), SymKey("tag")}

\* Leading (pre-bound) and trailing argument lists.
BindArgLists == {<<>>, <<Num(1), Num(2)>>}
CallArgLists == {<<>>, <<Num(3), Num(4)>>}

CmdInit ==
  NoLists /\ NoRecords /\ \E p \in PropsIds : Mount([init |-> "zero", update |-> "counter", afterUpdate |-> "none"], p)

PlainCall == \E k \in CmdKeys, a \in CallArgLists : CmdCall(k, a, MaxCmdCalls)

CurriedCall ==
  \E k \in CmdKeys, b \in BindArgLists, a \in CallArgLists : CmdCurry(k, b, a, MaxCmdCalls)

CmdNext == PlainCall \/ CurriedCall \/ Rerender

SpecCmd == CmdInit /\ [][CmdNext]_vars

\* C4: cmd[msg].curry(...L)(...T) dispatches exactly the payload that
\* cmd[msg](...L, ...T) dispatches: {msg, args: L followed by T, props}.
C4_CurryAssociativity ==
  lastCall.via = "curry" =>
    lastCall.after =
      Append(lastCall.before,
             CmdPayload(lastCall.key, lastCall.bindArgs \o lastCall.args, lastCall.surface.props))

\* A call pre-bound with [1, 2] and invoked with [3, 4] dispatched [1, 2, 3, 4].
C4_Witness ==
  /\ lastCall.via = "curry"
  /\ lastCall.bindArgs = <<Num(1), Num(2)>>
  /\ lastCall.args = <<Num(3), Num(4)>>
  /\ queue # <<>>
  /\ queue[Len(queue)].args = <<Num(1), Num(2), Num(3), Num(4)>>

\* The name a property key is accessed by.
AccessedName(key) == IF key.k = "str" THEN key.s ELSE "Symbol(" \o key.s \o ")"

\* C10: calling the callable found under any property name performs exactly
\* one dispatch, of {msg: that name, args: the call's arguments in order,
\* props: the props the surface was built for}, and returns nothing.
C10_CallDispatchesOnce ==
  lastCall.via = "call" =>
    /\ Len(lastCall.after) = Len(lastCall.before) + 1
    /\ SubSeq(lastCall.after, 1, Len(lastCall.before)) = lastCall.before
    /\ lastCall.after[Len(lastCall.after)] =
         [msg |-> AccessedName(lastCall.key), args |-> lastCall.args,
          props |-> lastCall.surface.props]
    /\ lastCall.returned = Undef

\* A name never declared as a message of the counter was called with
\* arguments, on a surface built for the current props after they changed,
\* and its payload is in the queue.
C10_Witness ==
  /\ lastCall.via = "call"
  /\ lastCall.key = StrKey("Undeclared")
  /\ lastCall.args = <<Num(3), Num(4)>>
  /\ lastCall.surface.id = 2
  /\ queue = <<[msg |-> "Undeclared", args |-> <<Num(3), Num(4)>>, props |-> props]>>

\* C11: a render makes a new surface exactly when props changed identity,
\* the surface closes over the props of the render that made it, and every
\* payload dispatched through the surface the view holds carries the current
\* props.
C11_SurfaceFollowsProps ==
  [][ /\ props' # props => (cmd'.id # cmd.id /\ cmd'.props = props')
      /\ props' = props => cmd' = cmd
      /\ Len(queue') > Len(queue) =>
            /\ props' = props
            /\ queue'[Len(queue')].props = props ]_vars

\* Props changed once; a call on the new surface was reduced by a render
\* with the same props, which kept the surface, and a second call on it put
\* a payload with the current props in the queue.
C11_Witness ==
  /\ cmd.id = 2
  /\ cmd.props = props
  /\ Len(log) = 1
  /\ log[1].payload.props = props
  /\ lastCall.surface = cmd
  /\ Len(queue) = 1
  /\ queue[1].props = props

-----------------------------------------------------------------------------
(* ImmutableList (util) *)

Bool(b) == [t |-> "bool", b |-> b]
Text(x) == [t |-> "str", s |-> x]

\* JavaScript truthiness
Truthy(v) ==
  CASE v.t = "undef" -> FALSE
    [] v.t = "nan" -> FALSE
    [] v.t = "bool" -> v.b
    [] v.t = "num" -> v.n # 0
    [] v.t = "str" -> v.s # ""
    [] OTHER -> TRUE

Min(a, b) == IF a < b THEN a ELSE b
Max(a, b) == IF a > b THEN a ELSE b

\* array.slice(start, end): a negative index counts from the end, and both
\* are clamped to the array.
Slice(s, start, end) ==
  LET from == IF start < 0 THEN Max(Len(s) + start, 0) ELSE Min(start, Len(s))
      to == IF end < 0 THEN Max(Len(s) + end, 0) ELSE Min(end, Len(s))
  IN SubSeq(s, from + 1, to)

\* array[index]: the element, or undefined outside 0 .. length - 1
Element(s, index) ==
  IF index >= 0 /\ index < Len(s) THEN s[index + 1] ELSE Undef

\* The elements of s at the positions (from 1) in keep, in order.
Keep(s, keep) ==
  [j \in 1..Cardinality(keep) |->
     s[CHOOSE i \in keep : Cardinality({k \in keep : k < i}) = j - 1]]

\* The callbacks lists are used with; each reads the item and the index
\* (from 0) it is called with, and nothing else.
Predicates == {"isObject", "evenIndex"}
Transforms == {"index", "done", "same"}

Predicate(f, item, index) ==
  IF f = "isObject" THEN InstanceOfObject(item) ELSE index % 2 = 0

Transform(f, item, index) ==
  IF f = "index" THEN Num(index)
  ELSE IF f = "same" THEN item
  ELSE IF InstanceOfObject(item) /\ "done" \in DOMAIN item.f THEN item.f["done"]
  ELSE Undef

\* The arrays arrs with the elements elems in slot, a new array when slot is
\* the next free one.
Put(arrs, slot, elems) ==
  IF slot = Len(arrs) + 1 THEN Append(arrs, elems) ELSE [arrs EXCEPT ![slot] = elems]

\* A constructor that would keep the caller's array.
ConstructorNoCopy(arrs, a, slot) ==
  [arrs |-> arrs, list |-> [array |-> a]]

\* new ImmutableList(array) for an array a that exists already: the instance
\* gets its own array, in slot, with the same elements.
Constructor(arrs, a, slot) ==
  [arrs |-> Put(arrs, slot, arrs[a]), list |-> [array |-> slot]]

\* new ImmutableList([...]) for an array built in the expression: the
\* instance holds a copy of its elements.
FromLiteral(arrs, elems, slot) ==
  [arrs |-> Put(arrs, slot, elems), list |-> [array |-> slot]]

\* An accessor that would return the list's own array.
arrayShared(arrs, l, slot) ==
  [arrs |-> arrs, a |-> l.array]

\* get array(): a copy of the elements, in slot
array(arrs, l, slot) ==
  [arrs |-> Put(arrs, slot, arrs[l.array]), a |-> slot]

\* get length()
length(arrs, l) == Len(arrs[l.array])

\* An append that would push onto the list's own array.
appendInPlace(arrs, l, item, slot) ==
  [arrs |-> [arrs EXCEPT ![l.array] = Append(@, item)], list |-> l]

append(arrs, l, item, slot) ==
  FromLiteral(arrs, arrs[l.array] \o <<item>>, slot)

prepend(arrs, l, item, slot) ==
  FromLiteral(arrs, <<item>> \o arrs[l.array], slot)

\* An insertAt that would put the item after the element at index.
insertAtAfter(arrs, l, index, item, slot) ==
  FromLiteral(arrs,
              Slice(arrs[l.array], 0, index + 1) \o <<item>>
                \o Slice(arrs[l.array], index + 1, Len(arrs[l.array])),
              slot)

\* insertAt(index, item): [...slice(0, index), item, ...slice(index)]
insertAt(arrs, l, index, item, slot) ==
  FromLiteral(arrs,
              Slice(arrs[l.array], 0, index) \o <<item>>
                \o Slice(arrs[l.array], index, Len(arrs[l.array])),
              slot)

\* An at that would count a negative index from the end, as
\* Array.prototype.at does.
atFromEnd(arrs, l, index) ==
  Element(arrs[l.array], IF index < 0 THEN Len(arrs[l.array]) + index ELSE index)

\* at(index): this._array[index]
at(arrs, l, index) == Element(arrs[l.array], index)

\* A removeAt that would splice the list's own array.
removeAtInPlace(arrs, l, index, slot) ==
  [arrs |-> [arrs EXCEPT ![l.array] =
               Keep(@, {i \in 1..Len(@) : i - 1 # index})],
   list |-> l]

removeAt(arrs, l, index, slot) ==
  FromLiteral(arrs,
              Keep(arrs[l.array], {i \in 1..Len(arrs[l.array]) : i - 1 # index}),
              slot)

\* A pop that would take the last index to be the length.
popPastEnd(arrs, l, start, slot) ==
  LET index == IF start THEN 0 ELSE Len(arrs[l.array])
  IN removeAt(arrs, l, index, slot)

\* pop(start = false): removeAt(0) if start, else removeAt(length - 1)
pop(arrs, l, start, slot) ==
  LET index == IF start THEN 0 ELSE Len(arrs[l.array]) - 1
  IN removeAt(arrs, l, index, slot)

\* An updateAt that would replace the element whatever it is.
updateAtReplace(arrs, l, index, partialItem, slot) ==
  FromLiteral(arrs,
              [i \in 1..Len(arrs[l.array]) |->
                 IF i - 1 = index THEN partialItem ELSE arrs[l.array][i]],
              slot)

\* updateAt(index, partialItem): an object element is replaced by a new
\* object, itself spread and then partialItem if that is an object; any
\* other element is replaced by partialItem.
updateAt(arrs, l, index, partialItem, slot) ==
  LET elems == arrs[l.array]
  IN IF InstanceOfObject(Element(elems, index))
       THEN LET newItem ==
                  Obj(Spread(Element(elems, index).f,
                             IF InstanceOfObject(partialItem) THEN partialItem.f ELSE EmptyObj))
            IN FromLiteral(arrs,
                           [i \in 1..Len(elems) |-> IF i - 1 = index THEN newItem ELSE elems[i]],
                           slot)
       ELSE FromLiteral(arrs,
                        [i \in 1..Len(elems) |-> IF i - 1 = index THEN partialItem ELSE elems[i]],
                        slot)

\* The callbacks of mutateAt: shouldRemove is item => item.done, which throws
\* a TypeError when item is undefined, or () => false; updateInstead returns
\* {done: true}, or nothing.
Removers == {"done", "never"}
Updaters == {"markDone", "nothing"}

ShouldRemoveThrows(f, item) == f = "done" /\ item.t = "undef"

ShouldRemove(f, item) ==
  /\ f = "done"
  /\ InstanceOfObject(item) /\ "done" \in DOMAIN item.f /\ Truthy(item.f["done"])

UpdateInstead(f, item) ==
  IF f = "markDone" THEN Obj(("done" :> Bool(TRUE))) ELSE Undef

mutateAt(arrs, l, index, shouldRemove, updateInstead, slot) ==
  LET elems == arrs[l.array]
  IN IF ShouldRemove(shouldRemove, Element(elems, index))
       THEN removeAt(arrs, l, index, slot)
       ELSE LET maybeItem == UpdateInstead(updateInstead, Element(elems, index))
            IN IF InstanceOfObject(maybeItem)
                 THEN updateAt(arrs, l, index,
                               Obj(Spread(OwnProps(<<>>, Element(elems, index)), maybeItem.f)),
                               slot)
                 ELSE updateAt(arrs, l, index, maybeItem, slot)

filter(arrs, l, predicate, slot) ==
  LET elems == arrs[l.array]
  IN FromLiteral(arrs,
                 Keep(elems, {i \in 1..Len(elems) : Predicate(predicate, elems[i], i - 1)}),
                 slot)

map(arrs, l, callbackfn, slot) ==
  LET elems == arrs[l.array]
  IN FromLiteral(arrs,
                 [i \in 1..Len(elems) |-> Transform(callbackfn, elems[i], i - 1)],
                 slot)

\* [Symbol.iterator](): the items yielded by one pass
iterate(arrs, l) == arrs[l.array]

-----------------------------------------------------------------------------
(* SpecList: a caller working with ImmutableList instances *)

\* The arrays are: 1, the array the caller built the first list from; 2, the
\* array the caller gets from the array accessor; from 3 on, the lists' own.
CallerArray == 1
AccessorSlot == 2

NextSlot == Len(arrays) + 1

Item == Obj(("text" :> Text("milk")) @@ ("done" :> Bool(FALSE)))
ItemDone == Obj(("text" :> Text("milk")) @@ ("done" :> Bool(TRUE)))
ListItems == {Num(1), Item}
PartialItems == {Undef, Num(2), Obj(("done" :> Bool(TRUE)))}
InitialArrays == {<<>>, <<Item>>, <<Num(1), Item>>}
Indexes == -1 .. MaxLen

ListInit ==
  /\ \E e \in InitialArrays :
       LET c == Constructor(<<e, <<>>>>, CallerArray, 3)
       IN /\ arrays = c.arrs
          /\ lists = <<c.list>>
          /\ made = <<e>>
  /\ got = 0
  /\ lastOp = [op |-> "new"]
  /\ NoRecords
  /\ Mount([init |-> "zero", update |-> "counter", afterUpdate |-> "none"], 1)

\* The caller keeps the list r.list an operation on lists[k] returned.
Returned(r, op, k, args) ==
  /\ Len(lists) < MaxLists
  /\ Len(r.arrs[r.list.array]) <= MaxLen
  /\ arrays' = r.arrs
  /\ lists' = Append(lists, r.list)
  /\ made' = Append(made, r.arrs[r.list.array])
  /\ lastOp' = [op |-> op, on |-> k, before |-> arrays[lists[k].array], args |-> args,
                threw |-> FALSE, result |-> r.arrs[r.list.array]]
  /\ UNCHANGED <<got, engineVars, recordVars>>

\* The caller reads a value from lists[k].
Read(v, op, k, args) ==
  /\ lastOp' = [op |-> op, on |-> k, before |-> arrays[lists[k].array], args |-> args,
                threw |-> FALSE, result |-> v]
  /\ lastOp' # lastOp
  /\ UNCHANGED <<arrays, lists, made, got, engineVars, recordVars>>

ListAppend(K, X) ==
  \E k \in K, x \in X :
    Returned(append(arrays, lists[k], x, NextSlot), "append", k, <<x>>)

ListPrepend(K, X) ==
  \E k \in K, x \in X :
    Returned(prepend(arrays, lists[k], x, NextSlot), "prepend", k, <<x>>)

ListInsertAt(K, I, X) ==
  \E k \in K, i \in I, x \in X :
    Returned(insertAt(arrays, lists[k], i, x, NextSlot), "insertAt", k, <<Num(i), x>>)

ListAt(K, I) ==
  \E k \in K, i \in I :
    Read(at(arrays, lists[k], i), "at", k, <<Num(i)>>)

ListPop(K, B) ==
  \E k \in K, start \in B :
    Returned(pop(arrays, lists[k], start, NextSlot), "pop", k, <<Bool(start)>>)

ListMutateAt(K, I, F, G) ==
  \E k \in K, i \in I, f \in F, g \in G :
    /\ ~ShouldRemoveThrows(f, Element(arrays[lists[k].array], i))
    /\ Returned(mutateAt(arrays, lists[k], i, f, g, NextSlot), "mutateAt", k,
                <<Num(i), Text(f), Text(g)>>)

\* shouldRemove throws: mutateAt returns no list.
ListMutateAtThrows(K, I, F, G) ==
  \E k \in K, i \in I, f \in F, g \in G :
    /\ ShouldRemoveThrows(f, Element(arrays[lists[k].array], i))
    /\ lastOp' = [op |-> "mutateAt", on |-> k, before |-> arrays[lists[k].array],
                  args |-> <<Num(i), Text(f), Text(g)>>, threw |-> TRUE, result |-> Undef]
    /\ lastOp' # lastOp
    /\ UNCHANGED <<arrays, lists, made, got, engineVars, recordVars>>

ListRemoveAt(K, I) ==
  \E k \in K, i \in I :
    Returned(removeAt(arrays, lists[k], i, NextSlot), "removeAt", k, <<Num(i)>>)

ListUpdateAt(K, I, X) ==
  \E k \in K, i \in I, x \in X :
    Returned(updateAt(arrays, lists[k], i, x, NextSlot), "updateAt", k, <<Num(i), x>>)

ListFilter(K, F) ==
  \E k \in K, f \in F :
    Returned(filter(arrays, lists[k], f, NextSlot), "filter", k, <<Text(f)>>)

ListMap(K, F) ==
  \E k \in K, f \in F :
    Returned(map(arrays, lists[k], f, NextSlot), "map", k, <<Text(f)>>)

ListIterate(K) ==
  \E k \in K :
    Read(iterate(arrays, lists[k]), "iterate", k, <<>>)

ListLength(K) ==
  \E k \in K :
    Read(Num(length(arrays, lists[k])), "length", k, <<>>)

\* The caller reads list.array, pushes an element onto the array it got and
\* drops it.
ListArray(K) ==
  \E k \in K :
    LET r == array(arrays, lists[k], AccessorSlot)
        written == [r.arrs EXCEPT ![r.a] = Append(@, Text("new"))]
    IN /\ arrays' = IF r.a = AccessorSlot THEN [written EXCEPT ![AccessorSlot] = <<>>]
                    ELSE written
       /\ got' = r.a
       /\ lastOp' = [op |-> "array", on |-> k, before |-> arrays[lists[k].array],
                     args |-> <<>>, threw |-> FALSE, result |-> r.arrs[r.a]]
       /\ lastOp' # lastOp
       /\ UNCHANGED <<lists, made, engineVars, recordVars>>

\* The caller empties the array it built the first list from.
CallerWrites ==
  /\ arrays[CallerArray] # <<>>
  /\ arrays' = [arrays EXCEPT ![CallerArray] = <<>>]
  /\ lastOp' = [op |-> "write", on |-> CallerArray]
  /\ UNCHANGED <<lists, made, got, engineVars, recordVars>>

\* The caller applies operations, one after another, to the list it got
\* last, reads any list it has, and writes to the arrays it holds.
Latest == {Len(lists)}
Kept == DOMAIN lists

DoAppend == ListAppend(Latest, {Item})
DoPrepend == ListPrepend(Latest, {Num(1)})
DoInsertAt == ListInsertAt(Latest, {1}, {Item})
DoAt == ListAt(Kept, {0})
DoPop == ListPop(Latest, BOOLEAN)
DoMutateAt == ListMutateAt(Latest, {0}, {"done"}, {"markDone"})
DoMutateAtThrows == ListMutateAtThrows(Latest, {0}, {"done"}, {"markDone"})
DoRemoveAt == ListRemoveAt(Latest, {0})
DoUpdateAt == ListUpdateAt(Latest, {0}, {Obj(("done" :> Bool(TRUE)))})
DoFilter == ListFilter(Latest, {"isObject"})
DoMap == ListMap(Latest, {"same"})
DoIterate == ListIterate(Kept)
DoLength == ListLength(Kept)
DoArray == ListArray(Kept)

ListNext ==
  \/ DoAppend \/ DoPrepend \/ DoInsertAt \/ DoAt \/ DoPop \/ DoMutateAt
  \/ DoMutateAtThrows \/ DoRemoveAt \/ DoUpdateAt \/ DoFilter \/ DoMap
  \/ DoIterate \/ DoLength \/ DoArray \/ CallerWrites

SpecList == ListInit /\ [][ListNext]_vars

-----------------------------------------------------------------------------
(* SpecOps: one operation applied to one list, over all small inputs *)

OpItems == {Num(1), Item, ItemDone, Text("ab")}

\* The arrays of fewer than MaxLen of these elements.
OpArrays == UNION { [1..n -> OpItems] : n \in 0..(MaxLen - 1) }

OpsInit ==
  /\ \E e \in OpArrays :
       LET c == Constructor(<<e, <<>>>>, CallerArray, 3)
       IN /\ arrays = c.arrs
          /\ lists = <<c.list>>
          /\ made = <<e>>
  /\ got = 0
  /\ lastOp = [op |-> "new"]
  /\ NoRecords
  /\ Mount([init |-> "zero", update |-> "counter", afterUpdate |-> "none"], 1)

\* Nothing has been done with the list yet.
Fresh == Len(lists) = 1 /\ lastOp.op = "new"

OpAppend == Fresh /\ ListAppend({1}, OpItems)
OpInsertAt == Fresh /\ ListInsertAt({1}, Indexes, {Num(2), Item})
OpAt == Fresh /\ ListAt({1}, Indexes)
OpPop == Fresh /\ ListPop({1}, BOOLEAN)
OpMutateAt == Fresh /\ ListMutateAt({1}, Indexes, Removers, Updaters)
OpMutateAtThrows == Fresh /\ ListMutateAtThrows({1}, Indexes, Removers, Updaters)
OpRemoveAt == Fresh /\ ListRemoveAt({1}, Indexes)
OpUpdateAt == Fresh /\ ListUpdateAt({1}, Indexes, PartialItems \cup {Item})

OpsNext ==
  \/ OpAppend \/ OpInsertAt \/ OpAt \/ OpPop \/ OpMutateAt \/ OpMutateAtThrows
  \/ OpRemoveAt \/ OpUpdateAt

SpecOps == OpsInit /\ [][OpsNext]_vars

\* The index an operation was called with, and whether it is an index of
\* the list it was called on.
OpIndex == lastOp.args[1].n
InRange == OpIndex >= 0 /\ OpIndex < Len(lastOp.before)

\* The result has the elements of the list it was made from, except at the
\* index the operation was called with.
OthersUnchanged ==
  /\ Len(lastOp.result) = Len(lastOp.before)
  /\ \A j \in 1..Len(lastOp.before) : j - 1 # OpIndex => lastOp.result[j] = lastOp.before[j]

\* C12 as stated: the element at index is the shallow merge when it and v
\* are object-shaped, and v itself in every other case.
C12_UpdateAtMergesOrReplaces ==
  lastOp.op = "updateAt" =>
    /\ OthersUnchanged
    /\ InRange =>
         LET old == lastOp.before[OpIndex + 1]
             v == lastOp.args[2]
             new == lastOp.result[OpIndex + 1]
         IN IF InstanceOfObject(old) /\ InstanceOfObject(v)
              THEN InstanceOfObject(new) /\ IsShallowMerge(new.f, old.f, v.f)
              ELSE new = v

\* C12 amended: when the element at index is object-shaped, the result's
\* element is a new object, the shallow merge of v over it when v is
\* object-shaped and a copy with the same fields when v is not (undefined
\* included); when the element is not object-shaped, the result's element
\* is v itself; all other positions are unchanged.
C12_UpdateAtKeepsObjectElement ==
  lastOp.op = "updateAt" =>
    /\ OthersUnchanged
    /\ InRange =>
         LET old == lastOp.before[OpIndex + 1]
             v == lastOp.args[2]
             new == lastOp.result[OpIndex + 1]
         IN IF InstanceOfObject(old)
              THEN /\ InstanceOfObject(new)
                   /\ IF InstanceOfObject(v) THEN IsShallowMerge(new.f, old.f, v.f)
                      ELSE new.f = old.f
              ELSE new = v

\* updateAt(1, {done: true}) on [1, {text, done: false}] gave
\* [1, {text, done: true}].
C12_Witness ==
  /\ lastOp.op = "updateAt"
  /\ lastOp.before = <<Num(1), Item>>
  /\ lastOp.args = <<Num(1), Obj(("done" :> Bool(TRUE)))>>
  /\ lastOp.result = <<Num(1), ItemDone>>
  /\ iterate(arrays, lists[2]) = <<Num(1), ItemDone>>

\* The elements of the list an operation on the first list returns.
Elements(r) == r.arrs[r.list.array]

\* C13: a mutateAt that returned equals removeAt(index) when
\* shouldRemove(element at index) is truthy, and
\* updateAt(index, updateInstead(element at index)) otherwise.
C13_MutateAtIsRemoveOrUpdate ==
  (lastOp.op = "mutateAt" /\ ~lastOp.threw) =>
    LET item == Element(lastOp.before, OpIndex)
        shouldRemove == lastOp.args[2].s
        updateInstead == lastOp.args[3].s
    IN lastOp.result =
         IF ShouldRemove(shouldRemove, item)
           THEN Elements(removeAt(arrays, lists[1], OpIndex, NextSlot))
           ELSE Elements(updateAt(arrays, lists[1], OpIndex,
                                  UpdateInstead(updateInstead, item), NextSlot))

\* C14: with an index that is negative or not below the length, at returns
\* undefined, and removeAt and updateAt return, without throwing, another
\* list with the elements of the original in the same order.
C14_OutOfRangeDegrades ==
  (lastOp.op \in {"at", "removeAt", "updateAt"} /\ ~InRange) =>
    /\ ~lastOp.threw
    /\ lastOp.op = "at" => lastOp.result = Undef
    /\ lastOp.op \in {"removeAt", "updateAt"} =>
         /\ lastOp.result = lastOp.before
         /\ Len(lists) = 2
         /\ lists[2].array # lists[1].array
         /\ iterate(arrays, lists[2]) = iterate(arrays, lists[1])

\* On a list of two elements, updateAt(2, item) returned a list with the
\* same two elements.
C14_Witness ==
  /\ lastOp.op = "updateAt"
  /\ Len(lastOp.before) = 2
  /\ lastOp.before[1] # lastOp.before[2]
  /\ lastOp.args = <<Num(2), Item>>
  /\ ~lastOp.threw
  /\ iterate(arrays, lists[2]) = lastOp.before

\* C19: pop() returns what removeAt(length - 1) returns and pop(true) what
\* removeAt(0) returns: a list of length n - 1 with the other elements in
\* their order, or an empty list, without throwing, when n is 0.
C19_PopIsRemoveAtBoundary ==
  lastOp.op = "pop" =>
    LET n == Len(lastOp.before)
        start == lastOp.args[1].b
    IN /\ ~lastOp.threw
       /\ lastOp.result =
            Elements(removeAt(arrays, lists[1], IF start THEN 0 ELSE n - 1, NextSlot))
       /\ n = 0 => lastOp.result = <<>>
       /\ n > 0 =>
            /\ Len(lastOp.result) = n - 1
            /\ lastOp.result = IF start THEN SubSeq(lastOp.before, 2, n)
                               ELSE SubSeq(lastOp.before, 1, n - 1)

\* pop() on a list of two different elements returned a list with the first.
C19_Witness ==
  /\ lastOp.op = "pop"
  /\ lastOp.args = <<Bool(FALSE)>>
  /\ Len(lastOp.before) = 2
  /\ lastOp.before[1] # lastOp.before[2]
  /\ iterate(arrays, lists[2]) = <<lastOp.before[1]>>

\* C20: insertAt(index, item) with 0 <= index <= length returns a list of
\* length + 1 elements with item at index, the elements before index in
\* place and those from index on shifted by one; with index >= length it
\* returns what append(item) returns.
C20_InsertAtShifts ==
  lastOp.op = "insertAt" =>
    LET n == Len(lastOp.before)
        item == lastOp.args[2]
    IN /\ (OpIndex >= 0 /\ OpIndex <= n) =>
            /\ Len(lastOp.result) = n + 1
            /\ lastOp.result[OpIndex + 1] = item
            /\ \A j \in 1..n :
                 lastOp.before[j] = lastOp.result[IF j <= OpIndex THEN j ELSE j + 1]
       /\ OpIndex >= n =>
            lastOp.result = Elements(append(arrays, lists[1], item, NextSlot))

\* insertAt(1, 2) on a list of two elements put 2 between them.
C20_Witness ==
  /\ lastOp.op = "insertAt"
  /\ Len(lastOp.before) = 2
  /\ lastOp.args = <<Num(1), Num(2)>>
  /\ iterate(arrays, lists[2]) = <<lastOp.before[1], Num(2), lastOp.before[2]>>
  /\ iterate(arrays, lists[1]) = lastOp.before

C16_NoSharedBackingArray ==
  [][ /\ \A j, k \in DOMAIN lists' : j # k => lists'[j].array # lists'[k].array
      /\ lastOp'.op \in {"write", "array"} =>
           /\ lists' = lists
           /\ \A k \in DOMAIN lists :
                /\ iterate(arrays', lists[k]) = iterate(arrays, lists[k])
                /\ length(arrays', lists[k]) = length(arrays, lists[k])
                /\ got' # lists[k].array
                /\ CallerArray # lists[k].array ]_vars

\* The caller emptied the array it built a two-element list from, then
\* pushed onto the array the accessor of a derived list returned; both lists
\* report what they were made with.
C16_Witness ==
  /\ lastOp.op = "array"
  /\ lastOp.on = 2
  /\ got = AccessorSlot
  /\ arrays[CallerArray] = <<>>
  /\ Len(made[1]) = 2
  /\ lastOp.result = made[2]
  /\ iterate(arrays, lists[1]) = made[1]
  /\ array(arrays, lists[2], AccessorSlot).arrs[AccessorSlot] = made[2]
  /\ length(arrays, lists[1]) = 2

-----------------------------------------------------------------------------
(* ImmutableObject (util) *)

\* A constructor that would keep the caller's object.
ImmutableObject_constructorNoCopy(objs, o, slot) ==
  [objs |-> objs, record |-> [object |-> o]]

\* new ImmutableObject(object) for an object o that exists already:
\* this._object = {...object}, a new object, in slot, with the same fields.
ImmutableObject_constructor(objs, o, slot) ==
  [objs |-> Put(objs, slot, Spread(EmptyObj, objs[o])), record |-> [object |-> slot]]

\* An accessor that would return the record's own object.
ImmutableObject_objectShared(objs, r, slot) ==
  [objs |-> objs, o |-> r.object]

\* get object(): { ...this._object }, a new object, in slot
ImmutableObject_object(objs, r, slot) ==
  [objs |-> Put(objs, slot, Spread(EmptyObj, objs[r.object])), o |-> slot]

\* An update that would assign the fields to the record's own object.
ImmutableObject_updateInPlace(objs, r, fields, slot) ==
  [objs |-> [objs EXCEPT ![r.object] = Spread(@, fields)], record |-> r]

\* update(fields): new ImmutableObject({ ...this._object, ...fields }); the
\* object literal is known to the constructor alone, which copies it into
\* slot.
ImmutableObject_update(objs, r, fields, slot) ==
  [objs |-> Put(objs, slot, Spread(objs[r.object], fields)), record |-> [object |-> slot]]

-----------------------------------------------------------------------------
(* SpecRecord: a caller working with ImmutableObject instances *)

\* The objects are: 1, the object the caller built the first record from; 2,
\* the object the caller gets from the object accessor; from 3 on, the
\* records' own.
CallerObject == 1
AccessorObject == 2

NextObject == Len(objects) + 1

RecordObjects == {InitObj, ("a" :> Num(1))}
UpdateFields == ArgObjs \cup {EmptyObj}

\* The value the caller assigns to the field a of an object it holds.
Marked == Text("new")

RecordInit ==
  /\ \E o \in RecordObjects :
       LET c == ImmutableObject_constructor(<<o, EmptyObj>>, CallerObject, 3)
       IN /\ objects = c.objs
          /\ records = <<c.record>>
          /\ built = <<o>>
  /\ lastRec = [op |-> "new"]
  /\ NoLists
  /\ Mount([init |-> "zero", update |-> "counter", afterUpdate |-> "none"], 1)

\* The caller calls update on a record it has and keeps the record returned.
RecordUpdate ==
  \E k \in DOMAIN records, f \in UpdateFields :
    LET r == ImmutableObject_update(objects, records[k], f, NextObject)
    IN /\ Len(records) < MaxRecords
       /\ objects' = r.objs
       /\ records' = IF r.record \in {records[j] : j \in DOMAIN records}
                       THEN records ELSE Append(records, r.record)
       /\ built' = IF r.record \in {records[j] : j \in DOMAIN records}
                     THEN built ELSE Append(built, r.objs[r.record.object])
       /\ lastRec' = [op |-> "update", on |-> k, before |-> objects[records[k].object],
                      args |-> f, result |-> r.objs[r.record.object],
                      record |-> r.record]
       /\ UNCHANGED <<listVars, engineVars>>

\* The caller reads record.object and assigns to the field a of the object
\* it got.
RecordObject ==
  \E k \in DOMAIN records :
    LET r == ImmutableObject_object(objects, records[k], AccessorObject)
    IN /\ objects' = [r.objs EXCEPT ![r.o] = Spread(@, ("a" :> Marked))]
       /\ lastRec' = [op |-> "object", on |-> k, before |-> objects[records[k].object],
                      args |-> EmptyObj, result |-> r.objs[r.o],
                      record |-> records[k]]
       /\ lastRec' # lastRec
       /\ UNCHANGED <<records, built, listVars, engineVars>>

\* The caller assigns to the field a of the object it built the first
\* record from.
CallerSets ==
  /\ objects[CallerObject]["a"] # Marked
  /\ objects' = [objects EXCEPT ![CallerObject] = Spread(@, ("a" :> Marked))]
  /\ lastRec' = [op |-> "set", on |-> CallerObject]
  /\ UNCHANGED <<records, built, listVars, engineVars>>

RecordNext == RecordUpdate \/ RecordObject \/ CallerSets

SpecRecord == RecordInit /\ [][RecordNext]_vars

\* C15: update returns another record, holding the fields shallow-merged
\* over the value of the record it was called on; every record keeps the
\* value it was constructed with, whatever is done with other records, with
\* the object it was built from or with an object its accessor returned; and
\* the accessor returns an object that is not the record's own.
C15_RecordsNeverChange ==
  /\ \A k \in DOMAIN records :
       /\ objects[records[k].object] = built[k]
       /\ LET r == ImmutableObject_object(objects, records[k], AccessorObject)
          IN r.o # records[k].object /\ r.objs[r.o] = built[k]
  /\ lastRec.op = "update" =>
       /\ IsShallowMerge(lastRec.result, lastRec.before, lastRec.args)
       /\ lastRec.record # records[lastRec.on]
       /\ lastRec.record = records[Len(records)]
       /\ built[Len(records)] = lastRec.result
  /\ lastRec.op = "object" => lastRec.result = built[lastRec.on]

\* update({b: 1, n: {x: 1}}) on the first record returned a second one with
\* b added and n replaced; the caller assigned to a in the object it built
\* the first record from and in the object the second record's accessor
\* returned, and both records report a as it was.
C15_Witness ==
  /\ Len(records) = 2
  /\ built[1] = InitObj
  /\ built[2] = ("a" :> Num(0)) @@ ("b" :> Num(1)) @@ ("n" :> Obj(("x" :> Num(1))))
  /\ lastRec.op = "object"
  /\ lastRec.on = 2
  /\ objects[CallerObject]["a"] = Marked
  /\ objects[AccessorObject]["a"] = Marked
  /\ objects[records[1].object]["a"] = Num(0)
  /\ objects[records[2].object]["a"] = Num(0)

-----------------------------------------------------------------------------
(* SpecSteps: payloads reduced one at a time, with update functions that
   dispatch and caller-supplied functions that raise *)

\* A dispatch the engine would refuse once a reduction has run.
DispatchCapped(q, payload, depth) ==
  IF depth >= 1 THEN q ELSE Dispatch(q, payload)

\* dispatch(payload) called by a caller-supplied function while a payload
\* is being reduced, depth reductions after the first: the engine hands it
\* to the host like any other, and keeps no count.
DispatchDuring(q, payload, depth) == Dispatch(q, payload)

\* The update function "loop" calls cmd.Tick() and then returns what the
\* matchMsg update returns.  The calls an update function makes on cmd:
updateCalls(c) ==
  IF c.update = "loop" THEN <<StrKey("Tick")>> ELSE <<>>

NoError == [t |-> "none"]

\* The error the update function raises instead of returning: "strict" is
\* the matchMsg update with a throw new Error(msg) for every other message.
updateThrows(c, args, m, msg) ==
  IF c.update = "strict" /\ msg # "Ret"
    THEN [t |-> "error", by |-> "update", message |-> msg]
    ELSE NoError

\* The error afterUpdate raises instead of returning: "validate" returns
\* nothing, but throws when the model it is given is 1 or has a field a of 1.
afterUpdateThrows(h, c, m) ==
  IF /\ c.afterUpdate = "validate"
     /\ \/ m = Num(1)
        \/ InstanceOfObject(m) /\ "a" \in DOMAIN OwnProps(h, m) /\ OwnProps(h, m)["a"] = Num(1)
    THEN [t |-> "error", by |-> "afterUpdate", message |-> "invalid"]
    ELSE NoError

\* A reducer that would catch what update and afterUpdate raise, go on to
\* the next stage, and return the state it has.
reducerOutcomeCaught(kind, h, c, m, p) ==
  LET raised == updateThrows(c, p.args, m, p.msg)
      r == Reduce(kind, h, c, m, p)
  IN IF raised # NoError \/ (c.afterUpdate # "none" /\ afterUpdateThrows(h, c, r.rec.S1) # NoError)
       THEN [h |-> h, v |-> m, escaped |-> NoError,
             rec |-> [reducer |-> kind, payload |-> p, S |-> m, Sc |-> OwnProps(h, m),
                      calls |-> IF c.afterUpdate # "none" THEN <<"update", "afterUpdate">>
                                ELSE <<"update">>,
                      raised |-> IF raised # NoError THEN raised
                                 ELSE afterUpdateThrows(h, c, r.rec.S1),
                      escaped |-> NoError, returned |-> TRUE,
                      F |-> m, Fc |-> OwnProps(h, m)]]
       ELSE [h |-> r.h, v |-> r.v, escaped |-> NoError,
             rec |-> [raised |-> NoError, escaped |-> NoError, returned |-> TRUE] @@ r.rec]

\* reducer(model, payload) when update or afterUpdate may raise: neither
\* reducer has a try, so the call that raises ends the run there, nothing
\* is returned and the error is the caller's.
reducerOutcome(kind, h, c, m, p) ==
  LET e1 == updateThrows(c, p.args, m, p.msg)
      partialModel == update(c, p.args, m, p.msg)
      s1 == IF kind = "objectReducer" THEN Merged(h, m, partialModel)
            ELSE [h |-> h, v |-> partialModel]
      e2 == IF c.afterUpdate # "none" THEN afterUpdateThrows(s1.h, c, s1.v) ELSE NoError
      r == Reduce(kind, h, c, m, p)
  IN IF e1 # NoError
       THEN [h |-> h, escaped |-> e1,
             rec |-> [reducer |-> kind, payload |-> p, S |-> m, Sc |-> OwnProps(h, m),
                      calls |-> <<"update">>,
                      raised |-> e1, escaped |-> e1, returned |-> FALSE]]
     ELSE IF e2 # NoError
       THEN [h |-> s1.h, escaped |-> e2,
             rec |-> [reducer |-> kind, payload |-> p, S |-> m, Sc |-> OwnProps(h, m),
                      calls |-> <<"update", "afterUpdate">>,
                      raised |-> e2, escaped |-> e2, returned |-> FALSE]]
     ELSE [h |-> r.h, v |-> r.v, escaped |-> NoError,
           rec |-> [raised |-> NoError, escaped |-> NoError, returned |-> TRUE] @@ r.rec]

StepConfigs ==
  { [init |-> i, update |-> "loop", afterUpdate |-> a] :
      i \in {"zero", "obj"}, a \in {"none", "nothing"} }
  \cup
  { [init |-> i, update |-> "strict", afterUpdate |-> a] :
      i \in {"zero", "obj"}, a \in {"none", "nothing", "validate"} }

StepInit == NoLists /\ NoRecords /\ \E c \in StepConfigs : Mount(c, 1)

\* An error has left the reducer: the host takes the component down.
Failed == log # <<>> /\ log[Len(log)].escaped # NoError

\* The view calls cmd.
StepCall ==
  /\ ~Failed
  /\ \E k \in IF config.update = "loop"
                THEN { <<StrKey(n), a>> : n \in {"Tick", "Undeclared"}, a \in {<<>>, <<Num(1)>>} }
                ELSE { <<StrKey("Ret"), <<v>>>> : v \in {Undef, Num(1), Obj("a" :> Num(1))} }
                     \cup { <<StrKey("Undeclared"), <<>>>> } :
       CmdCall(k[1], k[2], MaxRuns)

\* The host reduces the payload at the head of its queue; the dispatches
\* update makes meanwhile join the queue behind the payloads already there.
\* When the reducer raises, no state comes back and the host has the error.
ReduceHead ==
  /\ ~Failed
  /\ queue # <<>>
  /\ nDispatched + Len(updateCalls(config)) <= MaxRuns
  /\ LET o == reducerOutcome(reducer, heap, config, model, Head(queue))
         calls == updateCalls(config)
     IN /\ model' = IF o.escaped = NoError THEN o.v ELSE model
        /\ heap' = o.h
        /\ log' = Append(log, o.rec)
        /\ current' = IF o.escaped = NoError
                        THEN Append(current, [v |-> o.rec.F, c |-> o.rec.Fc])
                        ELSE current
        /\ queue' = IF calls = <<>> THEN Tail(queue)
                    ELSE DispatchDuring(Tail(queue),
                                        CmdPayload(calls[1], <<>>, cmd.props), Len(log))
        /\ nDispatched' = nDispatched + Len(calls)
  /\ UNCHANGED <<config, props, cmd, initialModel, initCalls, reducer, issued,
                 rendered, lastCall>>
  /\ UNCHANGED <<listVars, recordVars>>

StepNext == StepCall \/ ReduceHead

SpecSteps == StepInit /\ [][StepNext]_vars

\* C21: with an update function that dispatches on every invocation, from
\* the first dispatch on there is always a pending dispatch: every
\* reduction leaves as many payloads queued as it found, and the engine
\* refuses none.
C21_NeverQuiescent ==
  config.update = "loop" =>
    /\ nDispatched > 0 => queue # <<>>
    /\ Len(queue) + Len(log) = nDispatched

\* After one call by the view, update has run three times, each run
\* dispatching Tick again, and a Tick is pending.
C21_Witness ==
  /\ config.update = "loop"
  /\ Len(issued) = 1
  /\ Len(log) = 3
  /\ nDispatched = 4
  /\ queue = <<[msg |-> "Tick", args |-> <<>>, props |-> props]>>
  /\ log[3].payload.msg = "Tick"

\* C22: when update or afterUpdate raises while a payload is reduced, the
\* reducer returns no state and the state stays the one the run started
\* from, no stage after the raising one is invoked, and the error that
\* leaves the reducer is the very one raised.
C22_ErrorsPropagate ==
  /\ \A k \in DOMAIN log :
       log[k].raised # NoError =>
         /\ ~log[k].returned
         /\ log[k].escaped = log[k].raised
         /\ log[k].calls = IF log[k].raised.by = "update" THEN <<"update">>
                           ELSE <<"update", "afterUpdate">>
         /\ k = Len(log)
         /\ model = log[k].S
         /\ OwnProps(heap, model) = log[k].Sc
  /\ Len(current) = 1 + Cardinality({ k \in DOMAIN log : log[k].raised = NoError })

\* update raised for a message it has no branch for, in a component that
\* has an afterUpdate, after an earlier payload was reduced.
C22_Witness ==
  /\ config.afterUpdate = "nothing"
  /\ Len(log) = 2
  /\ log[1].returned
  /\ log[2].raised = [t |-> "error", by |-> "update", message |-> "Undeclared"]

-----------------------------------------------------------------------------
(* SpecMatch: matchMsg as the update function of an object-shaped model *)

\* The handlers map of the "handlers" update has the entries Ret and Pair.
MatchHandlers == {"Ret", "Pair"}

MatchConfigs == { [init |-> "obj", update |-> "handlers", afterUpdate |-> "none"] }

MatchInit == NoLists /\ NoRecords /\ \E c \in MatchConfigs : Mount(c, 1)

\* The view calls cmd: the two messages with a handler, a name without
\* one, and constructor, which has no entry in the map either.
MatchCall ==
  \E k \in { <<StrKey("Ret"), <<v>>>> : v \in {Undef, Num(1), Obj("a" :> Num(1))} }
           \cup { <<StrKey("Pair"), a>> : a \in {<<Num(1), Num(2)>>, <<Num(2), Num(1)>>, <<Num(1)>>} }
           \cup { <<StrKey("Undeclared"), a>> : a \in {<<>>, <<Obj("a" :> Num(1))>>} }
           \cup { <<StrKey("constructor"), a>> : a \in {<<>>, <<Obj("a" :> Num(1))>>} } :
    CmdCall(k[1], k[2], MaxBatch)

MatchNext == MatchCall \/ BatchRender

SpecMatch == MatchInit /\ [][MatchNext]_vars

\* C23: with matchMsg as update over an object-shaped state and no
\* afterUpdate, a message with no entry in the handlers map invokes nothing
\* and leaves every field of the state as it was; a message with an entry
\* gets its handler's result for the dispatched arguments, in order, merged
\* into the state.
C23_MatchMsgFrame ==
  \A k \in DOMAIN log :
    InstanceOfObject(log[k].S) =>
      IF log[k].payload.msg \in MatchHandlers
        THEN /\ log[k].R1 = handler(log[k].payload.msg, log[k].payload.args)
             /\ IsShallowMerge(log[k].Fc, log[k].Sc, log[k].R1c)
        ELSE /\ log[k].R1 = Undef
             /\ log[k].Fc = log[k].Sc

\* The same, for the messages that are neither in the map nor the name of
\* a member of Object.prototype.
C23_MatchMsgFrameOwnNames ==
  \A k \in DOMAIN log :
    (InstanceOfObject(log[k].S) /\ log[k].payload.msg \notin ObjectPrototype) =>
      IF log[k].payload.msg \in MatchHandlers
        THEN /\ log[k].R1 = handler(log[k].payload.msg, log[k].payload.args)
             /\ IsShallowMerge(log[k].Fc, log[k].Sc, log[k].R1c)
        ELSE /\ log[k].R1 = Undef
             /\ log[k].Fc = log[k].Sc

====
